---- MODULE Spec2Model ----
(***************************************************************************)
(* Model of the discodrome music bot: the per-guild playback state (queue, *)
(* current song, autoplay mode), the slash-command handlers of MusicCog,   *)
(* the voice-occupancy watcher (on_voice_state_update) and the bounded     *)
(* retry loop of ui.SysMsg.msg / ui.ErrMsg.msg.                            *)
(*                                                                         *)
(* Handlers are asyncio coroutines: a handler runs atomically from one     *)
(* suspending await to the next, and other handlers run in between.  One   *)
(* action of the model is one such run-to-next-await segment.              *)
(*                                                                         *)
(* player.py and data.py are not part of the available sources; the        *)
(* operations play_audio_queue, skip_track and the completion callback are *)
(* modelled from section 4.3 of the specification.                         *)
(***************************************************************************)
EXTENDS Integers, Sequences, FiniteSets, TLC

\* ---------------------------------------------------------------- bounds
NumGuilds == 2
NumTracks == 2
MaxQueue == 2
MaxBatch == 2
MaxUsers == 1
MaxWatchers == 1
MaxLog == 4

\* ------------------------------------------------------------- constants
None == 0
MaxAttempts == 3

Guilds == 1..NumGuilds
Tracks == 1..NumTracks
AutoplayMode == {"NONE", "RANDOM", "SIMILAR"}

\* The guild whose handlers run in the single-guild specifications.
HomeGuilds == {CHOOSE g \in Guilds : \A h \in Guilds : g <= h}

SongLists == UNION {[1..n -> Tracks] : n \in 0..MaxBatch}

\* A catalog reply: either the result object carries a song list, or the
\* 'song' key is absent from it.
Responses ==
    {[present |-> TRUE, song |-> s] : s \in SongLists}
        \cup {[present |-> FALSE, song |-> <<>>]}

VARIABLES
    queue,          \* player.queue, per guild
    current_song,   \* player.current_song, per guild (None when empty)
    autoplay_mode,  \* guild_properties(g).autoplay_mode
    connected,      \* bot.voice_clients holds a voice client for the guild
    playing,        \* voice_client.is_playing()
    users,          \* humans in the guild's voice channel
    task,           \* the command handler in flight (or the last one run)
    sleeping,       \* watcher runs inside sleep(10), per guild
    disconnecting,  \* watcher runs inside await voice_client.disconnect()
    trace,          \* whether the enqueue/dequeue logs are recorded
    enqLog,         \* tracks appended to the home guild's queue, in order
    deqLog,         \* tracks taken from the home guild's queue, in order
    started,        \* the playback-start attempt made by the last step
    halted,         \* a stream was halted and its completion callback is due
    record,         \* a catalog record (JSON object) handed to Song
    song            \* the Song built from it, once built

guildVars == <<queue, current_song, autoplay_mode, connected, playing, users,
              halted>>
watchVars == <<sleeping, disconnecting>>
logVars == <<trace, enqLog, deqLog, record, song>>
NoStart == [made |-> FALSE]
NoRecord ==
    [has |-> {}, id |-> "", title |-> "", artist |-> "", album |-> "",
     duration |-> 0]
NoSong == [built |-> FALSE]
vars == <<queue, current_song, autoplay_mode, connected, playing, users,
          task, sleeping, disconnecting, trace, enqLog, deqLog, started,
          halted, record, song>>

\* ------------------------------------------------------------ task record
IdleTask ==
    [pc |-> "idle", cmd |-> "none", g |-> CHOOSE g \in HomeGuilds : TRUE,
     q |-> FALSE, qt |-> "none",
     asked |-> FALSE, found |-> FALSE, songs |-> <<>>,
     text |-> "none", next |-> "return",
     attempt |-> 0, sends |-> 0, delays |-> 0, result |-> "none",
     raised |-> FALSE]

\* Number of members of the voice channel the bot's voice client is bound to.
Members(g) == users[g] + (IF connected[g] THEN 1 ELSE 0)

Init ==
    /\ queue = [g \in Guilds |-> <<>>]
    /\ current_song = [g \in Guilds |-> None]
    /\ autoplay_mode = [g \in Guilds |-> "NONE"]
    /\ connected = [g \in Guilds |-> FALSE]
    /\ playing = [g \in Guilds |-> FALSE]
    /\ users = [g \in Guilds |-> 0]
    /\ task = IdleTask
    /\ sleeping = [g \in Guilds |-> 0]
    /\ disconnecting = [g \in Guilds |-> 0]
    /\ trace = FALSE
    /\ enqLog = <<>>
    /\ deqLog = <<>>
    /\ started = NoStart
    /\ halted = [g \in Guilds |-> FALSE]
    /\ record = NoRecord
    /\ song = NoSong

\* ------------------------------------------------------- catalog client
\* subsonic.search / get_random_songs / get_similar_songs index the reply
\* with ['song']: a reply without the key raises KeyError.
search_raises(resp) == ~resp.present

\* The list of Song objects built from the reply's song list.
search(resp) == resp.song

\* ---------------------------------------------------- presentation layer
\* Entering SysMsg.msg / ErrMsg.msg: attempt = 0, then the first send.
StartMsg(tk, text, next) ==
    [tk EXCEPT !.pc = "send", !.text = text, !.next = next,
               !.attempt = 0, !.sends = 0, !.delays = 0,
               !.result = "none", !.raised = FALSE]

\* The handler returns (raised = FALSE) or an exception escapes it.
Finish(tk, raised) == [tk EXCEPT !.pc = "idle", !.raised = raised]

NewTask(cmd, g, q, qt) ==
    [IdleTask EXCEPT !.cmd = cmd, !.g = g, !.q = q, !.qt = qt]

\* A failed send: attempt += 1, then asyncio.sleep(0.5).
SendFailed(tk) ==
    [tk EXCEPT !.pc = "sleep", !.sends = @ + 1, !.attempt = @ + 1,
               !.delays = @ + 1]

\* A successful send: the function returns from inside the loop.
SendSucceeded(tk) == [tk EXCEPT !.sends = @ + 1, !.result = "sent"]

LoopAgain_offbyone(tk) == tk.attempt <= MaxAttempts

\* while attempt < 3
LoopAgain(tk) == tk.attempt < MaxAttempts

GaveUp_raise(tk) == [tk EXCEPT !.result = "failed", !.next = "raise"]

\* After the loop: logger.error("Failed to send ... after %d attempts").
GaveUp(tk) == [tk EXCEPT !.result = "failed"]

\* ------------------------------------------------------ queue/player engine
ExpandAgain_whileempty(added) == added = <<>>

\* "Expansion happens at most once per playback-start attempt": an expansion
\* that produced nothing is not followed by another catalog request.
ExpandAgain(added) == FALSE

\* startQueuePlayback: no-op when already streaming; otherwise expand an
\* empty queue when autoplay is on, then pop the front into current_track
\* and start streaming it, or report "queue empty".
play_audio_queue(q, cur, mode, isPlaying, isConnected, resp) ==
    IF isPlaying
    THEN [queue |-> q, current |-> cur, playing |-> isPlaying,
          report |-> FALSE, expanded |-> FALSE, raised |-> FALSE,
          requests |-> 0, appended |-> <<>>, popped |-> <<>>]
    ELSE LET expand == q = <<>> /\ mode # "NONE"
         IN  IF expand /\ search_raises(resp)
             THEN [queue |-> q, current |-> cur, playing |-> isPlaying,
                   report |-> FALSE, expanded |-> TRUE, raised |-> TRUE,
                   requests |-> 1, appended |-> <<>>, popped |-> <<>>]
             ELSE LET added == IF expand THEN search(resp) ELSE <<>>
                      asks == IF ~expand THEN 0
                              ELSE IF ExpandAgain(added) THEN 2 ELSE 1
                      q1 == q \o added
                  IN  IF q1 = <<>>
                      THEN [queue |-> q1, current |-> cur,
                            playing |-> isPlaying,
                            report |-> TRUE, expanded |-> expand,
                            raised |-> FALSE, requests |-> asks,
                            appended |-> added, popped |-> <<>>]
                      ELSE [queue |-> Tail(q1), current |-> Head(q1),
                            playing |-> (isConnected /\ Head(q1) # None),
                            report |-> FALSE, expanded |-> expand,
                            raised |-> FALSE, requests |-> asks,
                            appended |-> added, popped |-> <<Head(q1)>>]

\* The enqueue/dequeue logs of the home guild, kept when trace is on.
Log(g, appended, popped) ==
    /\ trace' = trace
    /\ UNCHANGED <<record, song>>
    /\ IF trace /\ g \in HomeGuilds
       THEN /\ enqLog' = enqLog \o appended
            /\ deqLog' = deqLog \o popped
       ELSE UNCHANGED <<enqLog, deqLog>>

LogFits(appended) == trace => Len(enqLog) + Len(appended) <= MaxLog

\* Record of a playback-start attempt for guild g: what it found (queue
\* empty, already streaming, current track) and what it did (catalog request
\* for autoplay tracks, "queue empty" report), with the number of catalog
\* requests it issued, the number of tracks the catalog client returned and
\* whether the catalog client raised.
Attempt(g, empty, streaming, cur, expanded, report, requests, got, raised) ==
    [made |-> TRUE, g |-> g, empty |-> empty, mode |-> autoplay_mode[g],
     streaming |-> streaming, cur |-> cur, expanded |-> expanded,
     report |-> report, requests |-> requests, got |-> got,
     raised |-> raised]

\* A handler calling play_audio_queue on the playback state (q0, cur0,
\* play0) of guild g and running on to its next await.
RunQueue(g, q0, cur0, play0, resp, tk) ==
    LET r == play_audio_queue(q0, cur0, autoplay_mode[g], play0,
                              connected[g], resp)
    IN  /\ LogFits(r.appended)
        /\ queue' = [queue EXCEPT ![g] = r.queue]
        /\ current_song' = [current_song EXCEPT ![g] = r.current]
        /\ playing' = [playing EXCEPT ![g] = r.playing]
        /\ task' = IF r.raised THEN Finish(tk, TRUE)
                   ELSE IF r.report
                        THEN StartMsg(tk, "Queue is empty.", "return")
                        ELSE Finish(tk, FALSE)
        /\ Log(g, r.appended, r.popped)
        /\ started' = Attempt(g, q0 = <<>>, play0, cur0, r.expanded, r.report,
                              r.requests, Len(r.appended), r.raised)

\* What the handler does once the message function has returned.
Continue(tk, resp) ==
    LET g == tk.g
    IN  IF tk.next = "play_audio_queue"
           \/ (tk.next = "autoplay" /\ connected[g] /\ ~playing[g])
        THEN RunQueue(g, queue[g], current_song[g], playing[g], resp, tk)
        ELSE /\ task' = Finish(tk, tk.next = "raise")
             /\ started' = NoStart
             /\ UNCHANGED <<queue, current_song, playing, logVars>>

\* ------------------------------------------------------ occupancy watcher
\* on_voice_state_update up to its first await: return when the bot has no
\* voice client, start the 10 second wait when the bot is alone.
on_voice_state_update(g, isConnected, humans) ==
    IF isConnected /\ humans + 1 = 1
    THEN /\ sleeping[g] + disconnecting[g] < MaxWatchers
         /\ sleeping' = [sleeping EXCEPT ![g] = @ + 1]
    ELSE UNCHANGED sleeping

\* ------------------------------------------------------- command handlers
Queries ==
    {[q |-> FALSE, qt |-> "none"], [q |-> TRUE, qt |-> "none"],
     [q |-> TRUE, qt |-> "track"], [q |-> TRUE, qt |-> "album"]}

Appended_first(qt, resp) ==
    IF search(resp) = <<>> THEN <<>> ELSE <<Head(search(resp))>>

\* The songs play appends for a query of type qt answered by resp.
Appended(qt, resp) ==
    IF qt = "track"
    THEN (IF search(resp) = <<>> THEN <<>> ELSE <<Head(search(resp))>>)
    ELSE search(resp)

Enqueue_front(q, songs) == songs \o q

\* player.queue.append(song), once per song
Enqueue(q, songs) == q \o songs

QueueIsEmptyError_anymode(q, mode) == q = <<>>

\* player.queue == [] and autoplay_mode == AutoplayMode.NONE
QueueIsEmptyError(q, mode) == q = <<>> /\ mode = "NONE"

\* A reply the service can give: a track search asks for song_count=1, so
\* its reply carries at most one song.
Answers(qt, resp) == qt = "track" => Len(resp.song) <= 1

\* The handler has called the catalog client and got resp.
Asked(tk, resp) ==
    [tk EXCEPT !.asked = TRUE, !.found = resp.present, !.songs = resp.song]

AlreadyPlaying_anyquery(isPlaying, hasQuery) == isPlaying

\* voice_client.is_playing() and query is None
AlreadyPlaying(isPlaying, hasQuery) == isPlaying /\ ~hasQuery

NoResults_never(songs) == FALSE

\* len(songs) == 0
NoResults(songs) == Len(songs) = 0

\* play from the point where it holds a voice client.
PlayBody(g, tk, resp) ==
    /\ UNCHANGED <<current_song, playing, halted>>
    /\ IF AlreadyPlaying(playing[g], tk.q)
       THEN /\ task' = StartMsg(tk, "Already playing.", "return")
            /\ started' = NoStart
            /\ UNCHANGED <<queue, logVars>>
       ELSE IF ~tk.q
       THEN /\ task' = IF QueueIsEmptyError(queue[g], autoplay_mode[g])
                       THEN StartMsg(tk, "Queue is empty.", "return")
                       ELSE StartMsg(tk, "Started queue playback",
                                     "play_audio_queue")
            /\ started' = IF QueueIsEmptyError(queue[g], autoplay_mode[g])
                          THEN Attempt(g, queue[g] = <<>>, playing[g],
                                       current_song[g], FALSE, TRUE,
                                       0, 0, FALSE)
                          ELSE NoStart
            /\ UNCHANGED <<queue, logVars>>
       ELSE IF tk.qt = "none"
       THEN /\ task' = StartMsg(tk, "Please provide a query type.", "return")
            /\ started' = NoStart
            /\ UNCHANGED <<queue, logVars>>
       ELSE IF ~Answers(tk.qt, resp)
       THEN FALSE
       ELSE IF search_raises(resp)
       THEN /\ task' = IF tk.qt = "track"
                       THEN Finish(Asked(tk, resp), TRUE)
                       ELSE StartMsg(Asked(tk, resp), "No album found",
                                     "return")
            /\ started' = NoStart
            /\ UNCHANGED <<queue, logVars>>
       ELSE IF tk.qt = "track" /\ NoResults(search(resp))
       THEN /\ task' = StartMsg(Asked(tk, resp), "No track found", "return")
            /\ started' = NoStart
            /\ UNCHANGED <<queue, logVars>>
       ELSE /\ Len(queue[g]) + Len(Appended(tk.qt, resp)) <= MaxQueue
            /\ LogFits(Appended(tk.qt, resp))
            /\ queue' = [queue EXCEPT
                            ![g] = Enqueue(@, Appended(tk.qt, resp))]
            /\ task' = StartMsg(Asked(tk, resp),
                           IF tk.qt = "track" THEN "added track to queue"
                                              ELSE "added album to queue",
                           "play_audio_queue")
            /\ Log(g, Appended(tk.qt, resp), <<>>)
            /\ started' = NoStart

Play(g, query, resp) ==
    /\ task.pc = "idle"
    /\ LET tk == NewTask("play", g, query.q, query.qt)
       IN  IF users[g] = 0
           THEN /\ task' = StartMsg(tk,
                      "You are not connected to a voice channel.", "return")
                /\ started' = NoStart
                /\ UNCHANGED <<guildVars, watchVars, logVars>>
           ELSE IF ~connected[g]
           THEN /\ task' = [tk EXCEPT !.pc = "connect"]
                /\ started' = NoStart
                /\ UNCHANGED <<guildVars, watchVars, logVars>>
           ELSE /\ PlayBody(g, tk, resp)
                /\ UNCHANGED <<autoplay_mode, connected, users, watchVars>>

\* interaction.user.voice.channel.connect() has returned a voice client.
PlayConnected(resp) ==
    /\ task.pc = "connect"
    /\ connected' = [connected EXCEPT ![task.g] = TRUE]
    /\ on_voice_state_update(task.g, TRUE, users[task.g])
    /\ PlayBody(task.g, task, resp)
    /\ UNCHANGED <<autoplay_mode, users, disconnecting>>

\* connect() raised: AttributeError is caught and reported, get_voice_client
\* returns None and voice_client.is_playing() raises; anything else escapes.
PlayConnectFailed(exc) ==
    /\ task.pc = "connect"
    /\ task' = IF exc = "AttributeError"
               THEN StartMsg(task, "Cannot connect to voice channel.", "raise")
               ELSE Finish(task, TRUE)
    /\ started' = NoStart
    /\ UNCHANGED <<guildVars, watchVars, logVars>>

\* voice_client.stop(): a running stream ends and its completion callback
\* is due; without a running stream nothing happens.
Halt(due, isPlaying) == due \/ isPlaying

Requeue_back(q, cur) == q \o <<cur>>

\* player.queue.insert(0, player.current_song)
Requeue(q, cur) == <<cur>> \o q

Stop(g) ==
    /\ task.pc = "idle"
    /\ LET tk == NewTask("stop", g, FALSE, "none")
       IN  IF ~connected[g]
           THEN /\ task' = StartMsg(tk,
                      "Not currently connected to a voice channel.", "return")
                /\ started' = NoStart
                /\ UNCHANGED <<guildVars, watchVars, logVars>>
           ELSE /\ Len(queue[g]) < MaxQueue
                /\ playing' = [playing EXCEPT ![g] = FALSE]
                /\ halted' = [halted EXCEPT ![g] = Halt(@, playing[g])]
                /\ queue' = [queue EXCEPT ![g] = Requeue(@, current_song[g])]
                /\ current_song' = [current_song EXCEPT ![g] = None]
                /\ task' = StartMsg(tk, "Stopped queue playback", "return")
                /\ started' = NoStart
                /\ UNCHANGED <<autoplay_mode, connected, users, watchVars,
                               logVars>>

skip_track_twice(g, resp, tk) ==
    /\ halted' = [halted EXCEPT ![g] = Halt(@, playing[g])]
    /\ RunQueue(g, IF queue[g] = <<>> THEN <<>> ELSE Tail(queue[g]), None,
                FALSE, resp, tk)

\* skip_track: halt the stream, discard current_track, startQueuePlayback.
skip_track(g, resp, tk) ==
    /\ halted' = [halted EXCEPT ![g] = Halt(@, playing[g])]
    /\ RunQueue(g, queue[g], None, FALSE, resp, tk)

Skip(g, resp) ==
    /\ task.pc = "idle"
    /\ LET tk == NewTask("skip", g, FALSE, "none")
       IN  IF ~connected[g]
           THEN /\ task' = StartMsg(tk,
                      "Not currently connected to a voice channel.", "return")
                /\ started' = NoStart
                /\ UNCHANGED <<guildVars, watchVars, logVars>>
           ELSE IF ~playing[g]
           THEN /\ task' = StartMsg(tk, "No track is playing.", "return")
                /\ started' = NoStart
                /\ UNCHANGED <<guildVars, watchVars, logVars>>
           ELSE /\ skip_track(g, resp, tk)
                /\ UNCHANGED <<autoplay_mode, connected, users, watchVars>>

guild_data_shared(g) == CHOOSE h \in Guilds : \A k \in Guilds : h >= k

\* data.guild_data(interaction.guild_id): the entry of the guild's own id
guild_data(g) == g

ClearQueue_pop(q) == IF q = <<>> THEN q ELSE Tail(q)

\* queue.clear()
ClearQueue(q) == <<>>

Clear(g) ==
    /\ task.pc = "idle"
    /\ queue' = [queue EXCEPT ![guild_data(g)] = ClearQueue(@)]
    /\ task' = StartMsg(NewTask("clear", g, FALSE, "none"),
                        "cleared the queue", "return")
    /\ started' = NoStart
    /\ UNCHANGED <<current_song, autoplay_mode, connected, playing, users,
                   halted, watchVars, logVars>>

Autoplay(g, mode) ==
    /\ task.pc = "idle"
    /\ autoplay_mode' = [autoplay_mode EXCEPT ![g] = mode]
    /\ task' = StartMsg(NewTask("autoplay", g, FALSE, "none"),
                        IF mode = "NONE" THEN "Autoplay disabled"
                                         ELSE "Autoplay enabled",
                        "autoplay")
    /\ started' = NoStart
    /\ UNCHANGED <<queue, current_song, connected, playing, users,
                   halted, watchVars, logVars>>

\* ------------------------------------------------------- message delivery
SendErrors == {"NotFound", "HTTPException", "Exception"}

\* The awaited send returned: the message function returns to the handler.
SendOk(resp) ==
    /\ task.pc = "send"
    /\ Continue(SendSucceeded(task), resp)
    /\ UNCHANGED <<autoplay_mode, connected, users, halted, watchVars>>

\* The awaited send raised exc: one of the three except branches.
SendFail(exc) ==
    /\ task.pc = "send"
    /\ task' = SendFailed(task)
    /\ started' = NoStart
    /\ UNCHANGED <<guildVars, watchVars, logVars>>

\* asyncio.sleep(0.5) is over: loop again or fall out of the loop.
SleepDone(resp) ==
    /\ task.pc = "sleep"
    /\ IF LoopAgain(task)
       THEN /\ task' = [task EXCEPT !.pc = "send"]
            /\ started' = NoStart
            /\ UNCHANGED <<guildVars, watchVars, logVars>>
       ELSE /\ Continue(GaveUp(task), resp)
            /\ UNCHANGED <<autoplay_mode, connected, users, halted, watchVars>>

\* ------------------------------------------------------------ environment
\* A member joins the voice channel; the presence event runs the watcher.
UserJoin(g) ==
    /\ users[g] < MaxUsers
    /\ users' = [users EXCEPT ![g] = @ + 1]
    /\ on_voice_state_update(g, connected[g], users[g] + 1)
    /\ started' = NoStart
    /\ UNCHANGED <<queue, current_song, autoplay_mode, connected, playing,
                   halted, task, disconnecting, logVars>>

\* A member leaves the voice channel; the presence event runs the watcher.
UserLeave(g) ==
    /\ users[g] > 0
    /\ users' = [users EXCEPT ![g] = @ - 1]
    /\ on_voice_state_update(g, connected[g], users[g] - 1)
    /\ started' = NoStart
    /\ UNCHANGED <<queue, current_song, autoplay_mode, connected, playing,
                   halted, task, disconnecting, logVars>>

\* The stream ran to its end: onTrackFinished clears current_track and
\* attempts startQueuePlayback.
OnTrackFinished(g, resp) ==
    /\ task.pc = "idle"
    /\ playing[g]
    /\ RunQueue(g, queue[g], None, FALSE, resp,
                NewTask("finished", g, FALSE, "none"))
    /\ UNCHANGED <<autoplay_mode, connected, users, halted, watchVars>>

ExplicitlyStopped_ignored(due) == FALSE

\* "unless the engine was explicitly stopped": the stream did not run to
\* its end, it was halted by voice_client.stop().
ExplicitlyStopped(due) == due

\* The completion callback of a halted stream runs: it does not touch the
\* playback state when the engine was explicitly stopped.
OnTrackHalted(g, resp) ==
    /\ halted[g]
    /\ halted' = [halted EXCEPT ![g] = FALSE]
    /\ IF ExplicitlyStopped(halted[g])
       THEN /\ started' = NoStart
            /\ UNCHANGED <<queue, current_song, playing, task, logVars>>
       ELSE /\ task.pc = "idle"
            /\ RunQueue(g, queue[g], None, playing[g], resp,
                        NewTask("finished", g, FALSE, "none"))
    /\ UNCHANGED <<autoplay_mode, connected, users, watchVars>>

StillAlone_nocheck(n) == n >= 1

\* len(voice_client.channel.members) == 1, after the wait
StillAlone(n) == n = 1

WatcherClear_keep(q) == q

\* player.queue.clear() in the watcher
WatcherClear(q) == <<>>

\* sleep(10) is over: re-check the member count; when still 1, call
\* voice_client.disconnect(), which halts the stream before it suspends.
WatcherWake(g) ==
    /\ sleeping[g] > 0
    /\ sleeping' = [sleeping EXCEPT ![g] = @ - 1]
    /\ IF StillAlone(Members(g))
       THEN /\ disconnecting' = [disconnecting EXCEPT ![g] = @ + 1]
            /\ playing' = [playing EXCEPT ![g] = FALSE]
            /\ halted' = [halted EXCEPT ![g] = Halt(@, playing[g])]
       ELSE UNCHANGED <<disconnecting, playing, halted>>
    /\ started' = NoStart
    /\ UNCHANGED <<queue, current_song, autoplay_mode, connected, users,
                   task, logVars>>

\* disconnect() has returned: the voice client is gone; clear the player.
WatcherDisconnected(g) ==
    /\ disconnecting[g] > 0
    /\ disconnecting' = [disconnecting EXCEPT ![g] = @ - 1]
    /\ connected' = [connected EXCEPT ![g] = FALSE]
    /\ queue' = [queue EXCEPT ![guild_data(g)] = WatcherClear(@)]
    /\ current_song' = [current_song EXCEPT ![guild_data(g)] = None]
    /\ started' = NoStart
    /\ UNCHANGED <<autoplay_mode, playing, users, halted, task, sleeping,
                   logVars>>

\* ---------------------------------------------------------- specification
Next ==
    \/ \E g \in HomeGuilds, query \in Queries, resp \in Responses :
            Play(g, query, resp)
    \/ \E resp \in Responses : PlayConnected(resp)
    \/ \E exc \in {"AttributeError", "ClientException"} :
            PlayConnectFailed(exc)
    \/ \E g \in HomeGuilds : Stop(g)
    \/ \E g \in HomeGuilds, resp \in Responses : Skip(g, resp)
    \/ \E g \in HomeGuilds : Clear(g)
    \/ \E g \in HomeGuilds, mode \in AutoplayMode : Autoplay(g, mode)
    \/ \E resp \in Responses : SendOk(resp)
    \/ \E exc \in SendErrors : SendFail(exc)
    \/ \E resp \in Responses : SleepDone(resp)
    \/ \E g \in HomeGuilds : UserJoin(g)
    \/ \E g \in HomeGuilds : UserLeave(g)
    \/ \E g \in HomeGuilds, resp \in Responses : OnTrackFinished(g, resp)
    \/ \E g \in HomeGuilds, resp \in Responses : OnTrackHalted(g, resp)
    \/ \E g \in HomeGuilds : WatcherWake(g)
    \/ \E g \in HomeGuilds : WatcherDisconnected(g)

Spec == Init /\ [][Next]_vars

\* Enqueue and dequeue only, with the logs recorded: no stop, no clear and
\* no member ever leaves, so the watcher never acts.
InitFifo ==
    /\ queue = [g \in Guilds |-> <<>>]
    /\ current_song = [g \in Guilds |-> None]
    /\ autoplay_mode = [g \in Guilds |-> "NONE"]
    /\ connected = [g \in Guilds |-> FALSE]
    /\ playing = [g \in Guilds |-> FALSE]
    /\ users = [g \in Guilds |-> 0]
    /\ task = IdleTask
    /\ sleeping = [g \in Guilds |-> 0]
    /\ disconnecting = [g \in Guilds |-> 0]
    /\ trace = TRUE
    /\ enqLog = <<>>
    /\ deqLog = <<>>
    /\ started = NoStart
    /\ halted = [g \in Guilds |-> FALSE]
    /\ record = NoRecord
    /\ song = NoSong

NextFifo ==
    \/ \E g \in HomeGuilds, query \in Queries, resp \in Responses :
            Play(g, query, resp)
    \/ \E resp \in Responses : PlayConnected(resp)
    \/ \E exc \in {"AttributeError", "ClientException"} :
            PlayConnectFailed(exc)
    \/ \E g \in HomeGuilds, resp \in Responses : Skip(g, resp)
    \/ \E g \in HomeGuilds, mode \in AutoplayMode : Autoplay(g, mode)
    \/ \E resp \in Responses : SendOk(resp)
    \/ \E exc \in SendErrors : SendFail(exc)
    \/ \E resp \in Responses : SleepDone(resp)
    \/ \E g \in HomeGuilds : UserJoin(g)
    \/ \E g \in HomeGuilds, resp \in Responses : OnTrackFinished(g, resp)
    \/ \E g \in HomeGuilds, resp \in Responses : OnTrackHalted(g, resp)

SpecFifo == InitFifo /\ [][NextFifo]_vars

\* Several guilds: the guilds other than the home guild are in use (a track
\* streaming, a track queued, autoplay on, a member in the channel) while
\* commands, watcher runs and failures are handled for the home guild.
InitGuilds ==
    /\ queue = [g \in Guilds |-> IF g \in HomeGuilds THEN <<>> ELSE <<1>>]
    /\ current_song = [g \in Guilds |->
                          IF g \in HomeGuilds THEN None ELSE NumTracks]
    /\ autoplay_mode = [g \in Guilds |->
                           IF g \in HomeGuilds THEN "NONE" ELSE "RANDOM"]
    /\ connected = [g \in Guilds |-> g \notin HomeGuilds]
    /\ playing = [g \in Guilds |-> g \notin HomeGuilds]
    /\ users = [g \in Guilds |-> IF g \in HomeGuilds THEN 0 ELSE 1]
    /\ task = IdleTask
    /\ sleeping = [g \in Guilds |-> 0]
    /\ disconnecting = [g \in Guilds |-> 0]
    /\ trace = FALSE
    /\ enqLog = <<>>
    /\ deqLog = <<>>
    /\ started = NoStart
    /\ halted = [g \in Guilds |-> FALSE]
    /\ record = NoRecord
    /\ song = NoSong

SpecGuilds == InitGuilds /\ [][Next]_vars

\* Several presence events have arrived while the bot is alone in the
\* channel with a track streaming: more watcher runs than MaxWatchers wait
\* in sleep(10) at the same time.
InitWatchers ==
    /\ queue = [g \in Guilds |-> IF g \in HomeGuilds THEN <<1>> ELSE <<>>]
    /\ current_song = [g \in Guilds |->
                          IF g \in HomeGuilds THEN NumTracks ELSE None]
    /\ autoplay_mode = [g \in Guilds |-> "NONE"]
    /\ connected = [g \in Guilds |-> g \in HomeGuilds]
    /\ playing = [g \in Guilds |-> g \in HomeGuilds]
    /\ users = [g \in Guilds |-> 0]
    /\ task = IdleTask
    /\ sleeping = [g \in Guilds |->
                      IF g \in HomeGuilds THEN MaxWatchers + 1 ELSE 0]
    /\ disconnecting = [g \in Guilds |-> 0]
    /\ trace = FALSE
    /\ enqLog = <<>>
    /\ deqLog = <<>>
    /\ started = NoStart
    /\ halted = [g \in Guilds |-> FALSE]
    /\ record = NoRecord
    /\ song = NoSong

SpecWatchers == InitWatchers /\ [][Next]_vars

\* ------------------------------------------------------------------ Song
Keys == {"id", "title", "artist", "album", "duration"}

\* The field values of the catalog records handed to Song.
FieldValues ==
    [id |-> {"s1"}, title |-> {"Title1", "Title2"},
     artist |-> {"Artist1", "Artist2"}, album |-> {"Album1", "Album2"},
     duration |-> {0, 61}]

\* JSON objects of a song list: any subset of the keys may be missing (a
\* missing key's field keeps the filler of NoRecord and is never read).
JsonObjects ==
    {j \in [has : SUBSET Keys, id : FieldValues.id \cup {NoRecord.id},
            title : FieldValues.title \cup {NoRecord.title},
            artist : FieldValues.artist \cup {NoRecord.artist},
            album : FieldValues.album \cup {NoRecord.album},
            duration : FieldValues.duration] :
        /\ ("id" \in j.has) = (j.id # NoRecord.id)
        /\ ("title" \in j.has) = (j.title # NoRecord.title)
        /\ ("artist" \in j.has) = (j.artist # NoRecord.artist)
        /\ ("album" \in j.has) = (j.album # NoRecord.album)
        /\ ("duration" \notin j.has) => (j.duration = NoRecord.duration)}

\* Song.__init__ with the properties id, title, album, artist, duration.
Song(j) ==
    [built |-> TRUE,
     id |-> IF "id" \in j.has THEN j.id ELSE "",
     title |-> IF "title" \in j.has THEN j.title ELSE "Unknown Track",
     album |-> IF "artist" \in j.has THEN j.artist ELSE "Unknown Artist",
     artist |-> IF "album" \in j.has THEN j.album ELSE "Unknown Album",
     duration |-> IF "duration" \in j.has THEN j.duration ELSE 0]

playerVars ==
    <<queue, current_song, autoplay_mode, connected, playing, users, task,
      sleeping, disconnecting, trace, enqLog, deqLog, started, halted>>

\* results.append(Song(item)) for one item of a reply's song list.
BuildSong ==
    /\ ~song.built
    /\ song' = Song(record)
    /\ UNCHANGED <<record, playerVars>>

\* The next item of a song list.
NextItem ==
    /\ song.built
    /\ record' \in JsonObjects
    /\ song' = NoSong
    /\ UNCHANGED playerVars

InitSong ==
    /\ queue = [g \in Guilds |-> <<>>]
    /\ current_song = [g \in Guilds |-> None]
    /\ autoplay_mode = [g \in Guilds |-> "NONE"]
    /\ connected = [g \in Guilds |-> FALSE]
    /\ playing = [g \in Guilds |-> FALSE]
    /\ users = [g \in Guilds |-> 0]
    /\ task = IdleTask
    /\ sleeping = [g \in Guilds |-> 0]
    /\ disconnecting = [g \in Guilds |-> 0]
    /\ trace = FALSE
    /\ enqLog = <<>>
    /\ deqLog = <<>>
    /\ started = NoStart
    /\ halted = [g \in Guilds |-> FALSE]
    /\ record \in JsonObjects
    /\ song = NoSong

NextSong == BuildSong \/ NextItem

SpecSong == InitSong /\ [][NextSong]_vars

\* ==================================================================== C1
\* C1: for every sequence of enqueue operations, tracks leave the queue for
\* playback in the order they were appended: the tracks appended so far are
\* the tracks dequeued so far followed by the tracks still queued.
FifoOrder ==
    \A g \in HomeGuilds : enqLog = deqLog \o queue[g]

FifoOrderWitness ==
    \E g \in HomeGuilds :
        /\ Len(deqLog) >= 2
        /\ deqLog[1] # deqLog[2]
        /\ queue[g] # <<>>

\* ==================================================================== C2
\* A step in which command cmd starts running for guild g.
Starts(cmd, g) ==
    /\ task.pc = "idle"
    /\ task'.pc # "idle"
    /\ task'.cmd = cmd
    /\ task'.g = g

\* A step in which skip, past its checks, runs skip_track for guild g.
Skips(g) ==
    /\ task.pc = "idle"
    /\ task'.cmd = "skip"
    /\ task'.g = g
    /\ started'.made

\* C2: stop issued while T is the current track leaves T at the front of
\* the queue with no current track, so that a startQueuePlayback that comes
\* next starts T; skip issued while T is current does not requeue T: what
\* plays next comes from the queue as it was, or from the catalog.
StopReplaysSkipDiscards ==
    [][\A g \in Guilds :
        /\ (Starts("stop", g) /\ connected[g] /\ current_song[g] # None)
            => /\ queue'[g] = <<current_song[g]>> \o queue[g]
               /\ current_song'[g] = None
               /\ \A resp \in Responses :
                    LET r == play_audio_queue(queue'[g], current_song'[g],
                                 autoplay_mode'[g], playing'[g],
                                 connected'[g], resp)
                    IN  /\ r.current = current_song[g]
                        /\ r.playing
                        /\ r.queue = queue[g]
        /\ Skips(g)
            => IF queue[g] # <<>>
               THEN /\ current_song'[g] = Head(queue[g])
                    /\ queue'[g] = Tail(queue[g])
               ELSE \/ /\ current_song'[g] = None
                       /\ queue'[g] = <<>>
                    \/ /\ autoplay_mode[g] # "NONE"
                       /\ \E resp \in Responses :
                            /\ resp.song # <<>>
                            /\ current_song'[g] = Head(resp.song)
                            /\ queue'[g] = Tail(resp.song)
      ]_vars

StopReplaysWitness ==
    \E g \in HomeGuilds :
        /\ task.cmd = "stop"
        /\ task.text = "Stopped queue playback"
        /\ Len(queue[g]) >= 2
        /\ Head(queue[g]) # None
        /\ Head(queue[g]) # queue[g][2]
        /\ current_song[g] = None

\* ==================================================================== C3
PreconditionTexts ==
    {"You are not connected to a voice channel.",
     "Not currently connected to a voice channel.",
     "No track is playing.", "Already playing.", "Queue is empty.",
     "Please provide a query type."}

\* A precondition of the command that starts in this step fails.
PreconditionFails(g) ==
    \/ /\ Starts("play", g)
       /\ \/ users[g] = 0
          \/ connected[g] /\ playing[g] /\ ~task'.q
          \/ connected[g] /\ ~task'.q /\ queue[g] = <<>>
                /\ autoplay_mode[g] = "NONE"
          \/ connected[g] /\ task'.q /\ task'.qt = "none"
    \/ /\ task.pc = "connect" /\ task'.pc = "send" /\ task.g = g
       /\ connected'[g]
       /\ \/ ~task.q /\ queue[g] = <<>> /\ autoplay_mode[g] = "NONE"
          \/ task.q /\ task.qt = "none"
    \/ /\ Starts("stop", g)
       /\ (~connected[g] \/ current_song[g] = None)
    \/ /\ Starts("skip", g)
       /\ (~connected[g] \/ ~playing[g])

\* C3: a command whose precondition fails reports the condition and aborts,
\* leaving the guild's queue and current track as they were.
AbortLeavesState ==
    [][\A g \in Guilds :
        PreconditionFails(g)
            => /\ task'.text \in PreconditionTexts
               /\ task'.next = "return"
               /\ queue'[g] = queue[g]
               /\ current_song'[g] = current_song[g]
      ]_vars

Rechecks(g) == sleeping'[g] < sleeping[g]

\* C5: when the channel has 2 or more members again at the re-check after
\* the wait, the watcher run does nothing: the bot stays connected and the
\* guild's queue, current track and stream are unchanged.
RecheckPreventsDisconnect ==
    [][\A g \in Guilds :
        (Rechecks(g) /\ Members(g) >= 2)
            => /\ connected'[g] = connected[g]
               /\ playing'[g] = playing[g]
               /\ queue'[g] = queue[g]
               /\ current_song'[g] = current_song[g]
               /\ disconnecting'[g] = disconnecting[g]
      ]_vars

RecheckWitness ==
    \E g \in HomeGuilds :
        /\ sleeping[g] > 0
        /\ Members(g) >= 2
        /\ connected[g]
        /\ current_song[g] # None
        /\ queue[g] # <<>>

\* ==================================================================== C6
\* C6: when the bot is still alone at the re-check the watcher run calls
\* disconnect, and in the state in which it has finished the bot has no
\* voice client and the guild's queue and current track are empty.
AloneDisconnectsAndClears ==
    [][\A g \in Guilds :
        /\ (Rechecks(g) /\ Members(g) = 1)
            => /\ disconnecting'[g] = disconnecting[g] + 1
               /\ ~playing'[g]
        /\ (disconnecting'[g] < disconnecting[g])
            => /\ ~connected'[g]
               /\ queue'[g] = <<>>
               /\ current_song'[g] = None
      ]_vars

AloneWitness ==
    \E g \in HomeGuilds :
        /\ disconnecting[g] > 0
        /\ connected[g]
        /\ users[g] = 0
        /\ queue[g] # <<>>
        /\ current_song[g] # None

\* ==================================================================== C7
\* The play handler has appended to the queue and has not yet reached its
\* playback start.
PlayMidMutation ==
    /\ task.cmd = "play"
    /\ task.pc \in {"send", "sleep"}
    /\ task.next = "play_audio_queue"
    /\ task.text \in {"added track to queue", "added album to queue"}

\* C7: mutations of a guild's playback state are serialized: while play is
\* between its append and its playback start, no step of another handler
\* changes that guild's queue or current track.
Serialized ==
    [][(PlayMidMutation /\ task' = task)
            => /\ queue'[task.g] = queue[task.g]
               /\ current_song'[task.g] = current_song[task.g]
      ]_vars

\* ==================================================================== C8
\* C8: the current track is non-empty only while the guild's voice
\* connection is streaming; it is empty when the bot is disconnected or
\* playback has been halted.
CurrentOnlyWhileStreaming ==
    \A g \in Guilds :
        current_song[g] # None => (connected[g] /\ playing[g])

\* ==================================================================== C9
\* C9: a message send makes at most 3 delivery attempts and returns at the
\* first one that succeeds; after 2 failures and a success it has made 3
\* attempts and 2 delays.
AtMostThreeAttempts ==
    /\ task.sends <= 3
    /\ task.result = "sent"
        => /\ task.pc = "idle"
           /\ task.sends = task.attempt + 1
           /\ task.delays = task.attempt
           /\ (task.attempt = 2 => (task.sends = 3 /\ task.delays = 2))

ThirdAttemptWitness ==
    /\ task.result = "sent"
    /\ task.attempt = 2
    /\ task.sends = 3
    /\ task.delays = 2

\* =================================================================== C10
\* The step in which the wait after the third failed attempt ends.
GivesUp == task.pc = "sleep" /\ task.attempt = 3 /\ task' # task

\* C10: when all 3 attempts have failed the message function logs an error
\* and returns normally: the handler goes on exactly as after a delivered
\* message, no exception escapes because of the failure, and the queue keeps
\* what the command put in it (it changes only by the playback start that
\* follows in the handler).
DeliveryFailureNotFatal ==
    [][GivesUp =>
        LET g == task.g
            runs == \/ task.next = "play_audio_queue"
                    \/ (task.next = "autoplay" /\ connected[g] /\ ~playing[g])
        IN  /\ task'.result = "failed" \/ (task'.pc = "send" /\ task'.sends = 0)
            /\ task.sends = 3
            /\ ~runs => /\ queue'[g] = queue[g]
                        /\ current_song'[g] = current_song[g]
                        /\ task'.pc = "idle"
                        /\ task'.raised = (task.next = "raise")
            /\ runs => \E resp \in Responses :
                         LET r == play_audio_queue(queue[g], current_song[g],
                                      autoplay_mode[g], playing[g],
                                      connected[g], resp)
                         IN  /\ queue'[g] = r.queue
                             /\ current_song'[g] = r.current
                             /\ task'.raised = r.raised
      ]_vars

DeliveryFailureWitness ==
    /\ task.cmd = "play"
    /\ task.text = "added track to queue"
    /\ task.result = "failed"
    /\ task.pc = "idle"
    /\ ~task.raised
    /\ current_song[task.g] # None
    /\ playing[task.g]

\* =================================================================== C11
\* A step in which the play handler calls the catalog client for guild g.
AsksCatalog(g) ==
    /\ task.pc \in {"idle", "connect"}
    /\ task' # task
    /\ task'.cmd = "play"
    /\ task'.g = g
    /\ task'.asked

\* The play handler runs on after its "no track found" report.
AfterNoTrackFound(g) ==
    /\ task.cmd = "play"
    /\ task.g = g
    /\ task.pc # "idle"
    /\ task.text = "No track found"
    /\ task' # task

\* C11: when play asks for a track and the search returns an empty list,
\* play reports "no track found", the guild's queue is unchanged, and the
\* command starts no playback, neither in that step nor before it returns.
NoTrackFound ==
    [][\A g \in Guilds :
        /\ (AsksCatalog(g) /\ task'.qt = "track" /\ task'.found
                /\ task'.songs = <<>>)
            => /\ task'.pc = "send"
               /\ task'.text = "No track found"
               /\ task'.next = "return"
               /\ queue'[g] = queue[g]
               /\ current_song'[g] = current_song[g]
               /\ playing'[g] = playing[g]
               /\ ~started'.made
        /\ AfterNoTrackFound(g)
            => /\ queue'[g] = queue[g]
               /\ current_song'[g] = current_song[g]
               /\ playing'[g] = playing[g]
               /\ ~started'.made
               /\ task'.pc = "idle" => ~task'.raised
      ]_vars

NoTrackFoundWitness ==
    \E g \in HomeGuilds :
        /\ task.cmd = "play"
        /\ task.text = "No track found"
        /\ task.pc = "idle"
        /\ task.result = "sent"
        /\ connected[g]
        /\ ~playing[g]
        /\ queue[g] # <<>>
        /\ Head(queue[g]) # None

\* =================================================================== C12
\* C12: when play asks for an album and the catalog returns an album of N
\* tracks, the guild's queue after the append is the queue before it
\* followed by those N tracks in album order: N longer, the earlier entries
\* in place.
AlbumAppended ==
    [][\A g \in Guilds :
        (AsksCatalog(g) /\ task'.qt = "album" /\ task'.found)
            => /\ queue'[g] = queue[g] \o task'.songs
               /\ Len(queue'[g]) = Len(queue[g]) + Len(task'.songs)
               /\ \A i \in 1..Len(queue[g]) : queue'[g][i] = queue[g][i]
               /\ task'.text = "added album to queue"
               /\ task'.next = "play_audio_queue"
      ]_vars

AlbumAppendedWitness ==
    \E g \in HomeGuilds :
        /\ task.cmd = "play"
        /\ task.qt = "album"
        /\ task.pc = "send"
        /\ task.text = "added album to queue"
        /\ Len(task.songs) = 2
        /\ task.songs[1] # task.songs[2]
        /\ queue[g] = task.songs
        /\ playing[g]

\* =================================================================== C13
\* C13: every command, watcher run or failure handled for the home guild
\* leaves the queue, the current track and the autoplay mode of every
\* other guild unchanged.
OtherGuildsUntouched ==
    [][\A g \in Guilds \ HomeGuilds :
        /\ queue'[g] = queue[g]
        /\ current_song'[g] = current_song[g]
        /\ autoplay_mode'[g] = autoplay_mode[g]
      ]_vars

OtherGuildsWitness ==
    \E g \in HomeGuilds, h \in Guilds \ HomeGuilds :
        /\ task.cmd = "clear"
        /\ task.g = g
        /\ task.result = "sent"
        /\ queue[g] = <<>>
        /\ current_song[g] # None
        /\ queue[h] # <<>>
        /\ current_song[h] # None
        /\ autoplay_mode[h] # autoplay_mode[g]

\* =================================================================== C15
\* C15: when the service's reply reports zero matches by leaving the song
\* list out of the result object, the catalog operation returns the empty
\* sequence and does not fail: play with a track query goes on as for an
\* empty list (it reports "no track found") and no exception escapes.
AbsentListIsEmpty ==
    [][\A g \in Guilds :
        (AsksCatalog(g) /\ task'.qt = "track" /\ ~task'.found)
            => /\ ~task'.raised
               /\ task'.pc = "send"
               /\ task'.text = "No track found"
      ]_vars

\* =================================================================== C16
\* The handler runs on after a playback-start attempt's "queue empty".
AfterQueueEmpty ==
    /\ task.pc \in {"send", "sleep"}
    /\ task.text = "Queue is empty."
    /\ task' # task

HaltedCallbackRuns(g) == halted[g] /\ ~halted'[g]

Stopped(g) ==
    /\ task.cmd = "stop"
    /\ task.g = g
    /\ task.text = "Stopped queue playback"

Commands == {"play", "stop", "skip", "clear", "autoplay"}

\* No command handler starts in this step.
NoCommandStarts ==
    ~(task.pc = "idle" /\ task' # task /\ task'.cmd \in Commands)

PlaysWhileStreaming(g) ==
    /\ task.pc = "idle"
    /\ task' # task
    /\ task'.cmd = "play"
    /\ task'.g = g
    /\ users[g] > 0
    /\ connected[g]
    /\ playing[g]

\* The play handler, past its append or its "already playing" report, takes
\* a step while the guild is streaming.
PlayGoesOn(g) ==
    /\ task.cmd = "play"
    /\ task.g = g
    /\ task.pc \in {"send", "sleep"}
    /\ task.text \in {"added track to queue", "added album to queue",
                      "Already playing."}
    /\ task' # task
    /\ playing[g]

\* C19: play with a query, issued while a track is streaming, appends the
\* found track(s) to the end of the queue and leaves the current track and
\* the stream as they are, and the startQueuePlayback that follows changes
\* nothing; play without a query, issued while a track is streaming,
\* reports "already playing" and changes nothing.
PlayWhileStreaming ==
    [][\A g \in Guilds :
        /\ (PlaysWhileStreaming(g) /\ task'.q /\ task'.qt # "none")
            => /\ task'.asked
               /\ (task'.found /\ (task'.qt = "album" \/ task'.songs # <<>>))
                    => /\ queue'[g] = queue[g] \o task'.songs
                       /\ task'.next = "play_audio_queue"
               /\ current_song'[g] = current_song[g]
               /\ playing'[g] = playing[g]
               /\ ~started'.made
        /\ (PlaysWhileStreaming(g) /\ ~task'.q)
            => /\ task'.text = "Already playing."
               /\ task'.next = "return"
               /\ queue'[g] = queue[g]
               /\ current_song'[g] = current_song[g]
               /\ playing'[g] = playing[g]
               /\ ~started'.made
        /\ PlayGoesOn(g)
            => /\ queue'[g] = queue[g]
               /\ current_song'[g] = current_song[g]
               /\ playing'[g] = playing[g]
               /\ started'.made => (started'.streaming /\ ~started'.expanded)
               /\ task.next = "return" => ~started'.made
               /\ task'.pc = "idle" => ~task'.raised
      ]_vars

PlayWhileStreamingWitness ==
    \E g \in HomeGuilds :
        /\ task.cmd = "play"
        /\ task.g = g
        /\ task.text = "added track to queue"
        /\ task.pc = "idle"
        /\ started.made
        /\ started.streaming
        /\ playing[g]
        /\ current_song[g] # None
        /\ Len(queue[g]) = 2
        /\ queue[g][2] = task.songs[1]
        /\ queue[g][2] # queue[g][1]

\* =================================================================== C20
\* The clear handler runs on after emptying the queue.
ClearGoesOn(g) ==
    /\ task.cmd = "clear"
    /\ task.g = g
    /\ task.pc # "idle"
    /\ task' # task

\* C20: clear empties the guild's queue and leaves the current track, the
\* stream, the voice connection and the autoplay mode as they are, in the
\* step that empties the queue and in the handler's steps after it.
ClearOnlyEmptiesQueue ==
    [][\A g \in Guilds :
        /\ Starts("clear", g)
            => /\ queue'[g] = <<>>
               /\ current_song'[g] = current_song[g]
               /\ playing'[g] = playing[g]
               /\ connected'[g] = connected[g]
               /\ autoplay_mode'[g] = autoplay_mode[g]
        /\ ClearGoesOn(g)
            => /\ queue'[g] = queue[g]
               /\ current_song'[g] = current_song[g]
               /\ playing'[g] = playing[g]
               /\ connected'[g] = connected[g]
               /\ autoplay_mode'[g] = autoplay_mode[g]
               /\ ~started'.made
      ]_vars

ClearWitness ==
    \E g \in HomeGuilds :
        /\ task.cmd = "clear"
        /\ task.g = g
        /\ task.pc = "idle"
        /\ task.result = "sent"
        /\ queue[g] = <<>>
        /\ current_song[g] # None
        /\ playing[g]
        /\ connected[g]
        /\ autoplay_mode[g] = "SIMILAR"

\* =================================================================== C14
\* C14: a Song built from a catalog record carries each field of the record
\* under the same name, and the sentinel default for a missing field.
SongCarriesRecord ==
    song.built
        => /\ song.id = (IF "id" \in record.has THEN record.id ELSE "")
           /\ song.title = (IF "title" \in record.has THEN record.title
                                                      ELSE "Unknown Track")
           /\ song.artist = (IF "artist" \in record.has THEN record.artist
                                                        ELSE "Unknown Artist")
           /\ song.album = (IF "album" \in record.has THEN record.album
                                                      ELSE "Unknown Album")
           /\ song.duration = (IF "duration" \in record.has
                               THEN record.duration ELSE 0)

\* =================================================================== C21
\* The autoplay handler, back from its message, takes its last step.
AutoplayGoesOn(g) ==
    /\ task.cmd = "autoplay"
    /\ task.g = g
    /\ task.next = "autoplay"
    /\ task.pc \in {"send", "sleep"}
    /\ task' # task
    /\ task'.pc # "sleep"
    /\ task'.pc = "send" => task'.sends = 0

\* C21: the autoplay command starts queue playback only if the bot is
\* connected, is not playing and the mode it has set is not NONE; with the
\* mode NONE it starts no playback.
AutoplayStartsOnlyIfEnabled ==
    [][\A g \in Guilds :
        (AutoplayGoesOn(g) /\ started'.made)
            => /\ connected[g]
               /\ ~playing[g]
               /\ autoplay_mode[g] # "NONE"
      ]_vars

\* =================================================================== C22
\* The step in which the connect call of play's get_voice_client fails.
ConnectFails(g) ==
    /\ task.pc = "connect"
    /\ task.g = g
    /\ task' # task
    /\ ~connected'[g]

\* The play handler runs on after its "cannot connect" report.
AfterCannotConnect(g) ==
    /\ task.cmd = "play"
    /\ task.g = g
    /\ task.pc \in {"send", "sleep"}
    /\ task.text = "Cannot connect to voice channel."
    /\ task' # task

\* C22: when play cannot establish a voice connection it reports "cannot
\* connect to voice channel" and aborts: the queue and the current track
\* are unchanged and no exception escapes the command.
ConnectFailureAborts ==
    [][\A g \in Guilds :
        /\ ConnectFails(g)
            => /\ task'.pc = "send"
               /\ task'.text = "Cannot connect to voice channel."
               /\ queue'[g] = queue[g]
               /\ current_song'[g] = current_song[g]
        /\ AfterCannotConnect(g)
            => /\ queue'[g] = queue[g]
               /\ current_song'[g] = current_song[g]
               /\ task'.pc = "idle" => ~task'.raised
      ]_vars

\* =================================================================== C23
\* C23: a message send that has made k attempts has performed exactly k-1
\* delays when it returns: no delay follows the last attempt, whether that
\* attempt succeeded or failed.
DelaysOnlyBetweenAttempts ==
    task.result \in {"sent", "failed"}
        => /\ task.sends \in 1..MaxAttempts
           /\ task.delays = task.sends - 1

\* =================================================================== C24
\* C24: every element of a guild's queue is a track: the queue never holds
\* an empty (None) entry.
QueueHoldsTracks ==
    \A g \in Guilds :
        \A i \in 1..Len(queue[g]) : queue[g][i] \in Tracks

\* =================================================================== C25
\* A step in which a watcher run of guild g, back from its wait, calls
\* disconnect.
TakesDisconnect(g) == Rechecks(g) /\ disconnecting'[g] > disconnecting[g]

\* C25: of several watcher runs waiting at once, at most one disconnects
\* the bot and clears the state: a run takes the disconnect/clear action
\* only while the bot is connected and no other run has called disconnect.
OneRunDisconnects ==
    [][\A g \in Guilds :
        TakesDisconnect(g) => (connected[g] /\ disconnecting[g] = 0)
      ]_vars

====
